---- MODULE Spec2Model ----
(***************************************************************************)
(* A model of the two stateful subsystems of src/src/gpuvis_utils.cpp:     *)
(*                                                                         *)
(*   - the log routines (logf_init .. logf_clear, lines 94-160): an owner  *)
(*     thread that appends to g_log directly, producer threads that append *)
(*     to g_thread_log under g_mutex, and logf_update / logf_clear run by  *)
(*     the owner;                                                          *)
(*   - the colour table Clrs (lines 874-976).                              *)
(*                                                                         *)
(*   - imgui_col_from_hashval (lines 389-395).                             *)
(*                                                                         *)
(* Each subsystem has its own specifications (LogSpec / LogFairSpec /      *)
(* LogShutSpec, ClrSpec, HashSpec); the variables of the other subsystems  *)
(* keep their initial value.                                               *)
(***************************************************************************)
EXTENDS Integers, Sequences, FiniteSets, TLC

(***************************************************************************)
(* Bounds of the model.                                                    *)
(***************************************************************************)
\* Number of logf calls made in a run, by all threads together.
MaxCalls == 4

(***************************************************************************)
(* Threads and messages.                                                   *)
(***************************************************************************)
\* The thread that called logf_init (SDL_ThreadID() at line 99).
MainThread == "main"

\* The threads that call logf without being the owner.
Producers == {"p1", "p2"}

Threads == {MainThread} \cup Producers

\* g_mutex == NoThread: the mutex is free.
NoThread == "none"

\* buf == NoMsg: the char *buf of logf is NULL (line 118).
NoMsg == <<NoThread, 0>>

\* A formatted message is identified by its thread and the index of the logf
\* call that made it.
AllMsgs == Threads \X (1..MaxCalls)

\* What vasprintf can return (line 121): a negative value on failure, else the
\* length of the text (0, the smallest success, for an empty text).
FmtResults == {-1, 0}

VARIABLES
    \* ---- log routines: program state
    g_main_tid,     \* line 49
    g_log,          \* line 50
    g_thread_log,   \* line 51
    g_mutex,        \* line 52: the thread holding the mutex, or NoThread
    pc,             \* each thread's position in logf / logf_update / logf_clear
    buf,            \* logf's local buf (line 118), per thread
    sent,           \* number of logf calls each thread has started
    inClear,        \* the running logf_update was called by logf_clear (line 155)
    \* ---- log routines: history, written by the H_ definitions only and read
    \* ---- by no action of the program
    pushed,         \* messages push_back'ed to g_log or g_thread_log (line 128, 133)
    beganSet,       \* producer appends completed when the running flush began
    ranAfter,       \* appends completed before a flush began that has since run
    lockSet,        \* producer appends completed when the running flush locked
    movedAfter,     \* appends completed before a flush's lock, bulk move done
    clearCalled,    \* logf_clear has been called
    beganFinal,     \* every producer had finished when the running flush began
    ranFinal,       \* a flush that began after every producer finished returned
    pendAtClear,    \* content of g_thread_log when the running logf_clear started
    discarded,      \* messages pending at the start of a returned logf_clear
    afterClear,     \* 1: clear just returned; 2: owner append running right
                    \* after it; 3: that append pushed; 0: otherwise
    missed          \* producer appends under way when a flush found nothing pending

VARIABLES
    \* ---- colour table: program state
    s_colordata,    \* line 874: Clrs::s_colordata, per colour its color, defcolor, modified
    s_ini,          \* section "$imgui_colors$" of the ini file s_ini() (lines 886, 904, 906)
    \* ---- colour table: history
    lastOp,         \* the last call made on the colour table, with what it found
    clrHist         \* per colour, what the calls of this session did to it

VARIABLES
    \* ---- imgui_col_from_hashval
    hashcol         \* the last call's hashval and the h and v it computed (lines 391-392)

logVars == <<g_main_tid, g_log, g_thread_log, g_mutex, pc, buf, sent, inClear>>

logHist == <<pushed, beganSet, ranAfter, lockSet, movedAfter, clearCalled,
             beganFinal, ranFinal, pendAtClear, discarded, afterClear, missed>>

clrVars == <<s_colordata, s_ini, lastOp, clrHist>>

hashVars == <<hashcol>>

\* What the log routines never touch.
otherVars == <<clrVars, hashVars>>

vars == <<logVars, logHist, clrVars, hashVars>>

Range(s) == {s[i] : i \in DOMAIN s}

(***************************************************************************)
(* Helpers of the log routines.                                            *)
(***************************************************************************)
\* A bug push_back could have: the new entry goes to the front.
push_front(v, x) == <<x>> \o v

\* std::vector::push_back (lines 128, 133, 146).
push_back(v, x) == Append(v, x)

\* A bug the test of ret could have: off by one, -1 passes.
FormatOk_OffByOne(r) == r >= -1

\* line 124: if ( ret >= 0 )
FormatOk(r) == r >= 0

\* A bug the test could have: every thread is taken for the owner.
IsMainThread_Any(t) == t \in Threads

\* line 126: if ( SDL_ThreadID() == g_main_tid )
IsMainThread(t) == t = g_main_tid

\* A bug the loop could have: it starts at the second entry.
MovePending_SkipFirst(log, tlog) ==
    IF tlog = <<>> THEN log ELSE log \o Tail(tlog)

\* lines 145-146: for ( char *str : g_thread_log ) g_log.push_back( str );
MovePending(log, tlog) == log \o tlog

\* A bug logf_update could have: g_thread_log is not cleared.
ClearPending_Kept(tlog) == tlog

\* line 147: g_thread_log.clear()
ClearPending(tlog) == <<>>

\* lines 157-159: free every string, g_log.clear()
ClearLog(log) == <<>>

\* A bug an unlock could have: the mutex stays with its holder.
UnlockMutex_Kept(holder) == holder

\* SDL_UnlockMutex (lines 134, 149)
UnlockMutex(holder) == NoThread

\* A bug the test could have: inverted, the flush runs when nothing is pending.
SizeRead_Inverted == {g_thread_log = <<>>}

\* line 141: if ( g_thread_log.size() ), read WITHOUT holding g_mutex.  The
\* read races with a producer's push_back at line 133.  While a push is in
\* progress the two pointers size() subtracts can be read before the push,
\* after it, or one of each (a torn read, a non-zero garbage size): the read
\* yields the vector's emptiness before the push or "non-empty".  With no push
\* in progress it yields the vector's emptiness.
SizeRead ==
    {g_thread_log # <<>>}
        \cup (IF \E p \in Producers : pc[p] = "logf_push" THEN {TRUE} ELSE {})

\* The number of logf calls made so far.
RECURSIVE SumSent(_, _)
SumSent(f, S) ==
    IF S = {} THEN 0
    ELSE LET t == CHOOSE x \in S : TRUE IN f[t] + SumSent(f, S \ {t})

\* Where logf_update returns to: into logf_clear (line 157) or to the caller.
UpdateReturn(clr) == IF clr THEN "clr_free" ELSE "idle"

(***************************************************************************)
(* Initial state: the state after logf_init (lines 97-101).                *)
(***************************************************************************)
LogVarsInit ==
    /\ g_main_tid = MainThread
    /\ g_log = <<>>
    /\ g_thread_log = <<>>
    /\ g_mutex = NoThread
    /\ pc = [t \in Threads |-> "idle"]
    /\ buf = [t \in Threads |-> NoMsg]
    /\ sent = [t \in Threads |-> 0]
    /\ inClear = FALSE
    /\ pushed = {}
    /\ beganSet = {}
    /\ ranAfter = {}
    /\ lockSet = {}
    /\ movedAfter = {}
    /\ clearCalled = FALSE
    /\ beganFinal = FALSE
    /\ ranFinal = FALSE
    /\ pendAtClear = {}
    /\ discarded = {}
    /\ afterClear = 0
    /\ missed = {}

\* The colour table is not in use.
ClrIdle ==
    /\ s_colordata = <<>>
    /\ s_ini = <<>>
    /\ lastOp = <<>>
    /\ clrHist = <<>>

\* imgui_col_from_hashval has not been called.
HashIdle == hashcol = <<>>

\* The log specifications leave the colour table alone.
LogInit ==
    /\ LogVarsInit
    /\ ClrIdle
    /\ HashIdle

(***************************************************************************)
(* logf (lines 114-137), one action per step of a thread.                  *)
(***************************************************************************)
\* lines 116-131: vasprintf formats the message into the thread's own buf,
\* before any lock is taken; the message is dropped when formatting failed;
\* the owner pushes to g_log (line 128) and returns; another thread goes on to
\* lock.  Nothing shared is read before line 126, so this is one step.
logf_format(t, r) ==
    /\ pc[t] = "idle"
    /\ SumSent(sent, Threads) < MaxCalls
    /\ sent' = [sent EXCEPT ![t] = @ + 1]
    /\ IF FormatOk(r)
         THEN IF IsMainThread(t)
                THEN /\ g_log' = push_back(g_log, <<t, sent[t] + 1>>)
                     /\ UNCHANGED <<pc, buf>>
                ELSE /\ buf' = [buf EXCEPT ![t] = <<t, sent[t] + 1>>]
                     /\ pc' = [pc EXCEPT ![t] = "logf_lock"]
                     /\ UNCHANGED g_log
         ELSE UNCHANGED <<g_log, pc, buf>>
    /\ UNCHANGED <<g_main_tid, g_thread_log, g_mutex, inClear>>

\* logf with any outcome of vasprintf (line 121).
logf(t) == \E r \in FmtResults : logf_format(t, r)

\* A bug logf could have: the mutex is taken without waiting for it.
logf_lock_NoWait(t) ==
    /\ pc[t] = "logf_lock"
    /\ g_mutex' = t
    /\ pc' = [pc EXCEPT ![t] = "logf_push"]
    /\ UNCHANGED <<g_main_tid, g_log, g_thread_log, buf, sent, inClear>>

\* line 132: SDL_LockMutex( g_mutex ) blocks while the mutex is held.
logf_lock(t) ==
    /\ pc[t] = "logf_lock"
    /\ g_mutex = NoThread
    /\ g_mutex' = t
    /\ pc' = [pc EXCEPT ![t] = "logf_push"]
    /\ UNCHANGED <<g_main_tid, g_log, g_thread_log, buf, sent, inClear>>

\* line 133: g_thread_log.push_back( buf )
logf_push(t) ==
    /\ pc[t] = "logf_push"
    /\ g_thread_log' = push_back(g_thread_log, buf[t])
    /\ pc' = [pc EXCEPT ![t] = "logf_unlock"]
    /\ UNCHANGED <<g_main_tid, g_log, g_mutex, buf, sent, inClear>>

\* line 134: SDL_UnlockMutex( g_mutex ), and the return.
logf_unlock(t) ==
    /\ pc[t] = "logf_unlock"
    /\ g_mutex' = UnlockMutex(g_mutex)
    /\ pc' = [pc EXCEPT ![t] = "idle"]
    /\ buf' = [buf EXCEPT ![t] = NoMsg]
    /\ UNCHANGED <<g_main_tid, g_log, g_thread_log, sent, inClear>>

(***************************************************************************)
(* logf_update (lines 139-151), run by the owner, directly or as the first *)
(* statement of logf_clear (line 155).                                     *)
(***************************************************************************)
\* A change logf_update could have: no test, the mutex is always taken.
logf_update_test_AlwaysLocks(clr) ==
    /\ pc[MainThread] = "idle"
    /\ inClear' = clr
    /\ pc' = [pc EXCEPT ![MainThread] = "upd_lock"]
    /\ UNCHANGED <<g_main_tid, g_log, g_thread_log, g_mutex, buf, sent>>

\* line 141: the call and its unlocked test of g_thread_log.size().
logf_update_test(clr) ==
    /\ pc[MainThread] = "idle"
    /\ inClear' = clr
    /\ \E nonempty \in SizeRead :
         pc' = [pc EXCEPT ![MainThread] =
                   IF nonempty THEN "upd_lock" ELSE UpdateReturn(clr)]
    /\ UNCHANGED <<g_main_tid, g_log, g_thread_log, g_mutex, buf, sent>>

\* logf_update called by the frame loop.
logf_update_call == logf_update_test(FALSE)

\* A bug logf_clear could have: it does not call logf_update first.
logf_clear_call_NoUpdate ==
    /\ pc[MainThread] = "idle"
    /\ inClear' = TRUE
    /\ pc' = [pc EXCEPT ![MainThread] = "clr_free"]
    /\ UNCHANGED <<g_main_tid, g_log, g_thread_log, g_mutex, buf, sent>>

\* logf_clear (line 153), whose first statement is logf_update() (line 155).
logf_clear_call == logf_update_test(TRUE)

\* line 143: SDL_LockMutex( g_mutex )
logf_update_lock ==
    /\ pc[MainThread] = "upd_lock"
    /\ g_mutex = NoThread
    /\ g_mutex' = MainThread
    /\ pc' = [pc EXCEPT ![MainThread] = "upd_move"]
    /\ UNCHANGED <<g_main_tid, g_log, g_thread_log, buf, sent, inClear>>

\* A bug the loop could have: the pending entries are put in front of g_log.
logf_update_move_InFront ==
    /\ pc[MainThread] = "upd_move"
    /\ g_log' = g_thread_log \o g_log
    /\ g_thread_log' = ClearPending(g_thread_log)
    /\ pc' = [pc EXCEPT ![MainThread] = "upd_unlock"]
    /\ UNCHANGED <<g_main_tid, g_mutex, buf, sent, inClear>>

\* lines 145-147: every pending entry is pushed to g_log, in order, and
\* g_thread_log is cleared.  The mutex is held and g_log is the owner's alone,
\* so no other thread can see a state between the loop and the clear.
logf_update_move ==
    /\ pc[MainThread] = "upd_move"
    /\ g_log' = MovePending(g_log, g_thread_log)
    /\ g_thread_log' = ClearPending(g_thread_log)
    /\ pc' = [pc EXCEPT ![MainThread] = "upd_unlock"]
    /\ UNCHANGED <<g_main_tid, g_mutex, buf, sent, inClear>>

\* line 149: SDL_UnlockMutex( g_mutex ), and the return.
logf_update_unlock ==
    /\ pc[MainThread] = "upd_unlock"
    /\ g_mutex' = UnlockMutex(g_mutex)
    /\ pc' = [pc EXCEPT ![MainThread] = UpdateReturn(inClear)]
    /\ UNCHANGED <<g_main_tid, g_log, g_thread_log, buf, sent, inClear>>

(***************************************************************************)
(* logf_clear (lines 153-160) after its logf_update returned.              *)
(***************************************************************************)
\* lines 157-159
logf_clear_free ==
    /\ pc[MainThread] = "clr_free"
    /\ g_log' = ClearLog(g_log)
    /\ pc' = [pc EXCEPT ![MainThread] = "idle"]
    /\ inClear' = FALSE
    /\ UNCHANGED <<g_main_tid, g_thread_log, g_mutex, buf, sent>>

\* logf_get (lines 109-112): the snapshot the UI renders.
logf_get == g_log

(***************************************************************************)
(* logf_shutdown (lines 103-107), called by the owner when the program     *)
(* exits.                                                                  *)
(***************************************************************************)
\* g_mutex == NullMutex: the mutex is destroyed and g_mutex is NULL (line 106).
NullMutex == "null"

\* A change logf_shutdown could have: it frees and clears the text as well.
logf_shutdown_Clears ==
    /\ pc[MainThread] = "idle"
    /\ g_mutex = NoThread
    /\ g_mutex' = NullMutex
    /\ g_log' = <<>>
    /\ g_thread_log' = <<>>
    /\ UNCHANGED <<g_main_tid, pc, buf, sent, inClear>>

\* lines 105-106: SDL_DestroyMutex( g_mutex ); g_mutex = NULL.  The mutex is
\* destroyed while no thread holds it.
logf_shutdown ==
    /\ pc[MainThread] = "idle"
    /\ g_mutex = NoThread
    /\ g_mutex' = NullMutex
    /\ UNCHANGED <<g_main_tid, g_log, g_thread_log, pc, buf, sent, inClear>>

(***************************************************************************)
(* History of the log routines: what the properties below need to know of  *)
(* the past.  Each H_ definition records the step of the same name.        *)
(***************************************************************************)
\* Producer appends that have completed: pushed, and the mutex released.
Completed ==
    {m \in pushed : m[1] # MainThread
                    /\ ~(pc[m[1]] = "logf_unlock" /\ buf[m[1]] = m)}

\* Producer appends under way: the message is formatted, and the mutex not
\* yet released after its push.
InFlight == {buf[p] : p \in {q \in Producers : pc[q] # "idle"}}

\* The producers have finished: every logf call of the run has been made and
\* every producer has returned from its last.
AllProducersFinished ==
    /\ SumSent(sent, Threads) = MaxCalls
    /\ \A p \in Producers : pc[p] = "idle"

\* The history of appends and flushes is kept up to the first call of
\* logf_clear, which discards what became visible.
Hist(clr, h) == IF clr THEN {} ELSE h

H_logf(t) ==
    /\ pushed' = Hist(clearCalled, pushed \cup (Range(g_log') \ Range(g_log)))
    /\ afterClear' = IF t # MainThread THEN afterClear
                     ELSE IF afterClear = 1 /\ g_log' # g_log THEN 3 ELSE 0
    /\ UNCHANGED <<missed, beganSet, ranAfter, lockSet, movedAfter, clearCalled,
                   beganFinal, ranFinal, pendAtClear, discarded>>

H_logf_push(t) ==
    /\ pushed' = Hist(clearCalled, pushed \cup (Range(g_thread_log') \ Range(g_thread_log)))
    /\ UNCHANGED <<missed, beganSet, ranAfter, lockSet, movedAfter, clearCalled,
                   beganFinal, ranFinal, pendAtClear, discarded, afterClear>>

\* The flush begins; it has run as soon as it returns without locking.
H_logf_update_test(clr) ==
    LET c == clearCalled \/ clr
        returned == pc'[MainThread] # "upd_lock"
        final == ~c /\ AllProducersFinished
    IN  /\ clearCalled' = c
        /\ pendAtClear' = IF clr THEN Range(g_thread_log) ELSE {}
        /\ afterClear' = 0
        /\ beganSet' = IF returned THEN {} ELSE Hist(c, Completed)
        /\ ranAfter' = Hist(c, IF returned THEN ranAfter \cup Completed ELSE ranAfter)
        /\ beganFinal' = (~returned /\ final)
        /\ ranFinal' = (ranFinal \/ (returned /\ final))
        /\ lockSet' = {}
        /\ movedAfter' = Hist(c, movedAfter)
        /\ pushed' = Hist(c, pushed)
        /\ missed' = Hist(c, IF returned THEN missed \cup InFlight ELSE missed)
        /\ UNCHANGED discarded

H_logf_update_lock ==
    /\ lockSet' = Hist(clearCalled, Completed)
    /\ UNCHANGED <<missed, pushed, beganSet, ranAfter, movedAfter, clearCalled,
                   beganFinal, ranFinal, pendAtClear, discarded, afterClear>>

H_logf_update_move ==
    /\ movedAfter' = Hist(clearCalled, movedAfter \cup lockSet)
    /\ ranAfter' = Hist(clearCalled, ranAfter \cup beganSet)
    /\ lockSet' = {}
    /\ beganSet' = {}
    /\ UNCHANGED <<missed, pushed, clearCalled, beganFinal, ranFinal, pendAtClear,
                   discarded, afterClear>>

H_logf_update_unlock ==
    /\ ranFinal' = (ranFinal \/ beganFinal)
    /\ beganFinal' = FALSE
    /\ UNCHANGED <<missed, pushed, beganSet, ranAfter, lockSet, movedAfter, clearCalled,
                   pendAtClear, discarded, afterClear>>

H_logf_clear_free ==
    /\ discarded' = discarded \cup pendAtClear
    /\ pendAtClear' = {}
    /\ afterClear' = 1
    /\ UNCHANGED <<missed, pushed, beganSet, ranAfter, lockSet, movedAfter, clearCalled,
                   beganFinal, ranFinal>>

(***************************************************************************)
(* The log specifications.                                                 *)
(***************************************************************************)
\* Each step of the program together with its record in the history.
T_logf(t) == logf(t) /\ H_logf(t) /\ UNCHANGED otherVars

T_logf_lock(t) == logf_lock(t) /\ UNCHANGED logHist /\ UNCHANGED otherVars

T_logf_push(t) == logf_push(t) /\ H_logf_push(t) /\ UNCHANGED otherVars

T_logf_unlock(t) == logf_unlock(t) /\ UNCHANGED logHist /\ UNCHANGED otherVars

T_logf_update_call == logf_update_call /\ H_logf_update_test(FALSE) /\ UNCHANGED otherVars

T_logf_clear_call == logf_clear_call /\ H_logf_update_test(TRUE) /\ UNCHANGED otherVars

T_logf_update_lock == logf_update_lock /\ H_logf_update_lock /\ UNCHANGED otherVars

T_logf_update_move == logf_update_move /\ H_logf_update_move /\ UNCHANGED otherVars

T_logf_update_unlock == logf_update_unlock /\ H_logf_update_unlock /\ UNCHANGED otherVars

T_logf_clear_free == logf_clear_free /\ H_logf_clear_free /\ UNCHANGED otherVars

LogNext ==
    \/ \E t \in Threads : T_logf(t)
    \/ \E t \in Producers : T_logf_lock(t)
    \/ \E t \in Producers : T_logf_push(t)
    \/ \E t \in Producers : T_logf_unlock(t)
    \/ T_logf_update_call
    \/ T_logf_clear_call
    \/ T_logf_update_lock
    \/ T_logf_update_move
    \/ T_logf_update_unlock
    \/ T_logf_clear_free

LogSpec == LogInit /\ [][LogNext]_vars

\* The log routines up to logf_shutdown, the last call the program makes on
\* them: nothing is logged once the mutex is destroyed.
Running == g_mutex # NullMutex

S_logf(t) == Running /\ T_logf(t)

S_logf_lock(t) == Running /\ T_logf_lock(t)

S_logf_push(t) == Running /\ T_logf_push(t)

S_logf_unlock(t) == Running /\ T_logf_unlock(t)

S_logf_update_call == Running /\ T_logf_update_call

S_logf_clear_call == Running /\ T_logf_clear_call

S_logf_update_lock == Running /\ T_logf_update_lock

S_logf_update_move == Running /\ T_logf_update_move

S_logf_update_unlock == Running /\ T_logf_update_unlock

S_logf_clear_free == Running /\ T_logf_clear_free

S_logf_shutdown == logf_shutdown /\ UNCHANGED logHist /\ UNCHANGED otherVars

LogShutNext ==
    \/ \E t \in Threads : S_logf(t)
    \/ \E t \in Producers : S_logf_lock(t)
    \/ \E t \in Producers : S_logf_push(t)
    \/ \E t \in Producers : S_logf_unlock(t)
    \/ S_logf_update_call
    \/ S_logf_clear_call
    \/ S_logf_update_lock
    \/ S_logf_update_move
    \/ S_logf_update_unlock
    \/ S_logf_clear_free
    \/ S_logf_shutdown

LogShutSpec == LogInit /\ [][LogShutNext]_vars

\* The program without its history, for the properties that need none.
F_logf(t) == logf(t) /\ UNCHANGED logHist /\ UNCHANGED otherVars

F_logf_lock(t) == logf_lock(t) /\ UNCHANGED logHist /\ UNCHANGED otherVars

F_logf_push(t) == logf_push(t) /\ UNCHANGED logHist /\ UNCHANGED otherVars

F_logf_unlock(t) == logf_unlock(t) /\ UNCHANGED logHist /\ UNCHANGED otherVars

F_logf_update_call == logf_update_call /\ UNCHANGED logHist /\ UNCHANGED otherVars

F_logf_clear_call == logf_clear_call /\ UNCHANGED logHist /\ UNCHANGED otherVars

F_logf_update_lock == logf_update_lock /\ UNCHANGED logHist /\ UNCHANGED otherVars

F_logf_update_move == logf_update_move /\ UNCHANGED logHist /\ UNCHANGED otherVars

F_logf_update_unlock == logf_update_unlock /\ UNCHANGED logHist /\ UNCHANGED otherVars

F_logf_clear_free == logf_clear_free /\ UNCHANGED logHist /\ UNCHANGED otherVars

\* The steps of a producer thread.
ProducerStep(t) ==
    \/ F_logf(t)
    \/ F_logf_lock(t)
    \/ F_logf_push(t)
    \/ F_logf_unlock(t)

\* The steps of the owner thread: logf, and the frame loop's logf_update and
\* logf_clear.
OwnerStep ==
    \/ F_logf(MainThread)
    \/ F_logf_update_call
    \/ F_logf_clear_call
    \/ F_logf_update_lock
    \/ F_logf_update_move
    \/ F_logf_update_unlock
    \/ F_logf_clear_free

ThreadStep(t) == IF t = MainThread THEN OwnerStep ELSE ProducerStep(t)

LogFairNext ==
    \/ OwnerStep
    \/ \E t \in Producers : ProducerStep(t)

\* Fair scheduling: every thread that can take a step eventually takes one;
\* the owner's frame loop never stops calling logf_update (or logf_clear,
\* which calls it).
LogFairSpec ==
    /\ LogInit
    /\ [][LogFairNext]_vars
    /\ WF_vars(OwnerStep)
    /\ \A t \in Producers : WF_vars(ProducerStep(t))

\* The same program under any scheduling.
LogPlainSpec == LogInit /\ [][LogFairNext]_vars

(***************************************************************************)
(* Properties of the log routines.                                         *)
(***************************************************************************)
InLog(m) == m \in Range(g_log)

InPending(m) == m \in Range(g_thread_log)

NoDuplicates(s) == \A i, j \in DOMAIN s : s[i] = s[j] => i = j

\* A message the owner thread appended.
OwnerAppended(m) == m \in pushed /\ m[1] = MainThread

\* C1 as stated: until the first logf_clear, a message is in g_log if and only
\* if the owner appended it, or a producer appended it and a flush that BEGAN
\* after that append completed has since run.
C1_VisibleIffFlushBeganAfter ==
    ~clearCalled =>
        \A m \in AllMsgs : InLog(m) <=> (OwnerAppended(m) \/ m \in ranAfter)

\* C1 (amended): until the first logf_clear, a message is in g_log if and only
\* if the owner appended it, or a producer appended it and a flush that
\* ACQUIRED THE MUTEX after that append released it has done its bulk move;
\* every flush that began after the append completed and has run is such a
\* flush, so the message is then visible.
C1_VisibleIffFlushLockedAfter ==
    ~clearCalled =>
        /\ \A m \in AllMsgs : InLog(m) <=> (OwnerAppended(m) \/ m \in movedAfter)
        /\ \A m \in ranAfter : InLog(m)

\* A producer's message is visible through a flush that began before its
\* append completed and took the mutex after it.
C1_Witness ==
    /\ ~clearCalled
    /\ \E m \in movedAfter : m \notin ranAfter /\ InLog(m)
    /\ \E m \in ranAfter : InLog(m)

\* C2: no message occurs twice across g_log and g_thread_log together; and,
\* with no clear, once every producer has finished and a flush that began
\* after that has returned, g_log holds every appended message exactly once
\* (its length is the number of appends) and g_thread_log is empty.
C2_ExactlyOnce ==
    /\ NoDuplicates(g_log \o g_thread_log)
    /\ (ranFinal /\ ~clearCalled) =>
          /\ g_thread_log = <<>>
          /\ Range(g_log) = pushed
          /\ Len(g_log) = Cardinality(pushed)

\* The final flush has run, every logf call formatted its message, and g_log
\* holds them all, both producers' among them.
C2_Witness ==
    /\ ranFinal
    /\ ~clearCalled
    /\ Len(g_log) = MaxCalls
    /\ \A p \in Producers : \E m \in pushed : m[1] = p

\* C3: two messages of the same thread that are both in g_log are in the
\* order of their logf calls.
C3_PerThreadOrder ==
    \A i, j \in DOMAIN g_log :
        (g_log[i][1] = g_log[j][1] /\ g_log[i][2] < g_log[j][2]) => i < j

\* Both messages of a producer are visible, separated by another thread's.
C3_Witness ==
    \E i, j, k \in DOMAIN g_log :
        /\ i < k /\ k < j
        /\ g_log[i][1] \in Producers
        /\ g_log[i][1] = g_log[j][1]
        /\ g_log[k][1] # g_log[i][1]

\* C4: under fair scheduling, with the owner calling logf_update in every
\* frame, every message in g_thread_log eventually is in g_log.
C4_EventuallyVisible ==
    \A m \in AllMsgs : InPending(m) ~> InLog(m)

\* A producer's message has been migrated and is visible.
C4_Witness ==
    \E m \in AllMsgs : m[1] \in Producers /\ InLog(m)

\* The mutex is held only inside logf's push (lines 133-134) or
\* logf_update's bulk move (lines 145-149): never while formatting, never
\* while waiting for a lock; and a thread that is inside an operation can
\* take a step, or waits for a mutex whose holder can.
C5_MutexHeldBriefly ==
    /\ \A t \in Producers :
          g_mutex = t <=> pc[t] \in {"logf_push", "logf_unlock"}
    /\ g_mutex = MainThread <=> pc[MainThread] \in {"upd_move", "upd_unlock"}
    /\ \A t \in Threads :
          pc[t] # "idle" =>
              \/ ENABLED ThreadStep(t)
              \/ /\ pc[t] \in {"logf_lock", "upd_lock"}
                 /\ g_mutex \in Threads \ {t}
                 /\ ENABLED ThreadStep(g_mutex)

\* C5: the mutex is held only for the push or the bulk move, no thread is
\* ever stuck, and under fair scheduling every started logf, logf_update and
\* logf_clear returns.
C5_NoOperationBlocks ==
    /\ []C5_MutexHeldBriefly
    /\ \A t \in Threads : (pc[t] # "idle") ~> (pc[t] = "idle")

\* Both producers wait for the mutex while the owner holds it for its move.
C5_Witness ==
    /\ g_mutex = MainThread
    /\ \A p \in Producers : pc[p] = "logf_lock"

\* C6: right after logf_clear returns logf_get is empty; the messages that
\* were in g_thread_log when logf_clear started are gone for good; and an
\* owner append right after the clear makes logf_get exactly that message.
C6_ClearEmptiesLog ==
    /\ afterClear = 1 => logf_get = <<>>
    /\ \A m \in discarded : ~InLog(m) /\ ~InPending(m)
    /\ afterClear = 3 => logf_get = << <<MainThread, sent[MainThread]>> >>

\* A clear that started with pending messages returned, and the owner then
\* appended a message.
C6_Witness ==
    /\ afterClear = 3
    /\ discarded # {}

\* C7: a logf call whose vasprintf returned a negative value returns in that
\* same step, with g_log, g_thread_log and the mutex untouched (so the mutex
\* was never taken), for the owner and for every other thread.
C7_FormatFailureDropped ==
    [][\A t \in Threads :
          logf_format(t, -1) =>
                /\ pc'[t] = "idle"
                /\ g_log' = g_log
                /\ g_thread_log' = g_thread_log
                /\ g_mutex' = g_mutex]_vars

\* The owner and a producer each had a logf call fail and return.
C7_Witness ==
    /\ ~clearCalled
    /\ pc[MainThread] = "idle" /\ sent[MainThread] = 1
    /\ <<MainThread, 1>> \notin pushed
    /\ \E p \in Producers :
          pc[p] = "idle" /\ sent[p] = 1 /\ <<p, 1>> \notin pushed

\* C17: logf_shutdown only destroys the mutex: g_log and g_thread_log hold
\* the same messages in the same order after it as before, and no thread's
\* formatted message is freed.
C17_ShutdownKeepsText ==
    [][logf_shutdown =>
          /\ g_log' = g_log
          /\ g_thread_log' = g_thread_log
          /\ buf' = buf
          /\ g_mutex' = NullMutex]_vars

\* logf_shutdown was called with messages in g_log and in g_thread_log.
C17_Witness ==
    /\ g_mutex = NullMutex
    /\ g_log # <<>>
    /\ g_thread_log # <<>>

\* A thread is inside the statements that change g_thread_log, or between
\* them and its unlock (lines 133-134, 145-149).
InCritical(t) ==
    IF t = MainThread THEN pc[t] \in {"upd_move", "upd_unlock"}
    ELSE pc[t] \in {"logf_push", "logf_unlock"}

\* At most one thread is inside, and it holds the mutex.
C19_OneHolderInside ==
    /\ Cardinality({t \in Threads : InCritical(t)}) <= 1
    /\ \A t \in Threads : InCritical(t) => g_mutex = t

\* A step that changes g_thread_log is a step of the thread that holds the
\* mutex, which keeps it over the step.
C19_MutationByHolder ==
    g_thread_log' # g_thread_log =>
        /\ g_mutex \in Threads
        /\ g_mutex' = g_mutex
        /\ pc'[g_mutex] # pc[g_mutex]
        /\ \A t \in Threads \ {g_mutex} : pc'[t] = pc[t]

\* C19: between logf_init and logf_shutdown every change of g_thread_log (a
\* producer's push, the owner's bulk move and clear) is made by the thread
\* holding the mutex, one thread at most holds it, and no two threads are
\* inside the statements that change g_thread_log at the same time.
C19_MutexDiscipline ==
    /\ []C19_OneHolderInside
    /\ [][C19_MutationByHolder]_vars

\* One producer is about to push while the other producer and the owner's
\* flush both wait for the mutex.
C19_Witness ==
    /\ \E p \in Producers :
          /\ pc[p] = "logf_push" /\ g_mutex = p
          /\ \A q \in Producers \ {p} : pc[q] = "logf_lock"
    /\ pc[MainThread] = "upd_lock"
    /\ g_thread_log # <<>>

\* A flush that finds g_thread_log empty, no push being under way, returns
\* at once: the mutex is not taken, g_log and g_thread_log are unchanged.
C20_FastPath ==
    ((logf_update_call \/ logf_clear_call)
        /\ g_thread_log = <<>>
        /\ \A p \in Producers : pc[p] # "logf_push")
    => /\ pc'[MainThread] # "upd_lock"
       /\ g_mutex' = g_mutex
       /\ g_log' = g_log
       /\ g_thread_log' = g_thread_log

\* A message whose append was under way when a flush found nothing pending
\* is, once pushed, in exactly one of g_log and g_thread_log, once.
C20_NotLostNotDuplicated ==
    /\ NoDuplicates(g_log \o g_thread_log)
    /\ ~clearCalled =>
          \A m \in missed \cap pushed : InLog(m) # InPending(m)

\* C20 as stated: the flush tests the emptiness of g_thread_log without the
\* mutex and returns at once when it is empty; a message whose append raced
\* with such a test is neither lost nor duplicated, and once its append has
\* completed it stays in g_thread_log until the next flush that begins after
\* that: it is that flush which moves it to g_log.
C20_MigratedByNextFlush ==
    /\ [][C20_FastPath]_vars
    /\ []C20_NotLostNotDuplicated
    /\ [](~clearCalled =>
            \A m \in missed :
                /\ m \in ranAfter => InLog(m)
                /\ InLog(m) => m \in ranAfter)

\* C20 (amended): the flush tests the emptiness of g_thread_log without the
\* mutex and returns at once when it is empty; a message whose append raced
\* with such a test is neither lost nor duplicated, and once its append has
\* completed it stays in g_thread_log until a flush that acquires the mutex
\* after that moves it to g_log, which happens no later than in the next
\* flush that begins after the append has completed; a flush that began
\* earlier and took the mutex after the append can be the one that moves it.
C20_MigratedNoLaterThanNextFlush ==
    /\ [][C20_FastPath]_vars
    /\ []C20_NotLostNotDuplicated
    /\ [](~clearCalled =>
            \A m \in missed :
                /\ m \in ranAfter => InLog(m)
                /\ InLog(m) <=> m \in movedAfter)

\* Two appends raced with a flush that found nothing pending; one message was
\* moved by a flush that began after its append completed, the other by a
\* flush that began before and took the mutex after.
C20_Witness ==
    /\ ~clearCalled
    /\ \E m \in missed : m \in ranAfter /\ InLog(m)
    /\ \E m \in missed : m \notin ranAfter /\ InLog(m)

\* The owner thread took the step.
OwnerStepped == pc'[MainThread] # pc[MainThread] \/ sent'[MainThread] # sent[MainThread]

\* From its test to its lock the flush leaves both vectors alone, and no
\* other thread changes g_log: g_log at the lock is g_log before the flush.
C21_UntilLocked ==
    pc[MainThread] = "upd_lock" =>
        /\ g_log' = g_log
        /\ OwnerStepped =>
              /\ pc'[MainThread] = "upd_move"
              /\ g_mutex' = MainThread
              /\ g_thread_log' = g_thread_log

\* Holding the mutex, the flush appends to g_log the whole of g_thread_log, in
\* its order and in one piece, and empties g_thread_log; no other thread
\* changes either vector in between, so what is moved is what was pending
\* when the mutex was acquired.
C21_BulkMove ==
    pc[MainThread] = "upd_move" =>
        /\ g_mutex = MainThread
        /\ IF OwnerStepped
             THEN /\ pc'[MainThread] = "upd_unlock"
                  /\ g_log' = g_log \o g_thread_log
                  /\ g_thread_log' = <<>>
                  /\ g_mutex' = MainThread
             ELSE g_log' = g_log /\ g_thread_log' = g_thread_log

\* g_thread_log is empty up to the release of the mutex, which leaves the
\* mutex free and g_log as the move made it.
C21_Release ==
    pc[MainThread] = "upd_unlock" =>
        /\ g_mutex = MainThread
        /\ g_thread_log = <<>>
        /\ g_log' = g_log
        /\ g_thread_log' = g_thread_log
        /\ OwnerStepped => g_mutex' = NoThread /\ pc'[MainThread] \in {"idle", "clr_free"}

\* A flush called when nothing was appended since the last one changes
\* nothing.
C21_SecondFlush ==
    (logf_update_call /\ g_thread_log = <<>> /\ \A p \in Producers : pc[p] # "logf_push")
        => UNCHANGED <<g_log, g_thread_log, g_mutex, pc>>

\* C21: a flush that finds g_thread_log non-empty leaves g_log as it was
\* before the flush followed by everything that was pending when the mutex
\* was acquired, in order and in one piece; g_thread_log is empty when the
\* mutex is released; the mutex is free afterwards; a second flush with no
\* append in between changes nothing.
C21_FlushPostCondition ==
    /\ [][C21_UntilLocked]_vars
    /\ [][C21_BulkMove]_vars
    /\ [][C21_Release]_vars
    /\ [][C21_SecondFlush]_vars

\* A flush has returned that moved two producers' messages behind the
\* owner's.
C21_Witness ==
    /\ pc[MainThread] = "idle"
    /\ g_mutex = NoThread
    /\ g_thread_log = <<>>
    /\ Len(g_log) >= 3
    /\ g_log[1][1] = MainThread
    /\ g_log[2][1] \in Producers
    /\ g_log[3][1] \in Producers \ {g_log[2][1]}

\* C22: only the owner changes g_log; the owner's logf appends to g_log (or
\* drops the message) without taking the mutex or touching g_thread_log; the
\* logf of another thread changes g_thread_log only, holding the mutex, and
\* never g_log.
C22_OwnerExclusive ==
    [][/\ g_main_tid' = g_main_tid
       /\ g_log' # g_log =>
             /\ OwnerStepped
             /\ \A p \in Producers :
                   pc'[p] = pc[p] /\ buf'[p] = buf[p] /\ sent'[p] = sent[p]
       /\ logf(g_main_tid) =>
             /\ g_thread_log' = g_thread_log
             /\ g_mutex' = g_mutex
             /\ pc' = pc
             /\ g_log' \in {g_log, Append(g_log, <<g_main_tid, sent'[g_main_tid]>>)}
       /\ \A p \in Producers :
             (pc'[p] # pc[p] \/ sent'[p] # sent[p]) =>
                 /\ g_log' = g_log
                 /\ g_thread_log' # g_thread_log =>
                       /\ g_mutex = p
                       /\ g_thread_log' = Append(g_thread_log, buf[p])]_vars

\* The owner has appended twice to g_log while a producer's message is in
\* g_thread_log and another producer holds the mutex for its push.
C22_Witness ==
    /\ Len(g_log) = 2
    /\ \A i \in DOMAIN g_log : g_log[i][1] = MainThread
    /\ Len(g_thread_log) = 1
    /\ g_thread_log[1][1] \in Producers
    /\ \E p \in Producers : pc[p] = "logf_push" /\ g_mutex = p

(***************************************************************************)
(* The colour table Clrs (lines 874-976).                                  *)
(***************************************************************************)
\* The colours of the model, out of the entries of gpuvis_colors.inl (line
\* 877): one of the alpha-only colours of is_alpha_color (line 967) and one
\* that is not (line 980).
Roles == {"col_ThemeAlpha", "col_ImGui_Text"}

\* An ImU32 is modelled by its four bytes, the most significant first: a
\* packed colour 0xAABBGGRR (IM_COL32_A_SHIFT is 24) is <<AA, BB, GG, RR>>.
\* A uint64_t is modelled by its eight bytes in the same way.

\* The colours of the model: 0xFF336699, 0x80336699 (the same but for its
\* alpha) and 0xFF000000.
Colors == {<<255, 51, 102, 153>>, <<128, 51, 102, 153>>, <<255, 0, 0, 0>>}

\* The alpha argument of Clrs::get when the caller passes none: any value
\* above 0xff (line 913); the declaration's default is ( ImU32 )-1.
NoAlpha == <<255, 255, 255, 255>>

\* The alpha arguments of the model's calls of Clrs::get: 0, 0x80, 0xff and
\* none.
AlphaArgs == {<<0, 0, 0, 0>>, <<0, 0, 0, 128>>, <<0, 0, 0, 255>>, NoAlpha}

\* UINT64_MAX, what Clrs::init asks GetUint64 to return for a missing key
\* (lines 886, 888).
UINT64_MAX == <<255, 255, 255, 255, 255, 255, 255, 255>>

\* An ImU32 widened to uint64_t, as PutUint64 takes it (line 906).
ToUint64(c) == <<0, 0, 0, 0>> \o c

\* A key with no value in the ini file.
Absent == <<>>

\* A key whose value is the empty string, as PutStr( key, "" ) leaves it
\* (line 904).
Blank == <<256>>

\* What the ini file can hold for a colour's key when the program starts:
\* what an earlier run stored or blanked, or nothing.
StoreVals == {ToUint64(c) : c \in Colors} \cup {Absent, Blank}

\* CIniFile::GetUint64( key, defval, section ): the stored number, or defval
\* when the key has no value or an empty one.
GetUint64(ini, key, defval) ==
    IF ini[key] \in {Absent, Blank} THEN defval ELSE ini[key]

\* CIniFile::PutStr( key, str, section )
PutStr(ini, key, str) == [ini EXCEPT ![key] = str]

\* CIniFile::PutUint64( key, val, section )
PutUint64(ini, key, val) == [ini EXCEPT ![key] = val]

\* A bug the cast could have: the high 32 bits are kept.
ImU32_HighWord(val) == SubSeq(val, 1, 4)

\* ( ImU32 )val at line 890: the low 32 bits.
ImU32(val) == SubSeq(val, 5, 8)

\* A bug Clrs::init could have: a loaded colour is flagged as modified.
Clrs_init_Flagged(tbl, ini) ==
    [i \in DOMAIN tbl |->
        LET val == GetUint64(ini, i, UINT64_MAX)
        IN  IF val # UINT64_MAX
              THEN [tbl[i] EXCEPT !.color = ImU32(val), !.modified = TRUE]
              ELSE tbl[i]]

\* Clrs::init (lines 881-893)
Clrs_init(tbl, ini) ==
    [i \in DOMAIN tbl |->
        LET val == GetUint64(ini, i, UINT64_MAX)
        IN  IF val # UINT64_MAX
              THEN [tbl[i] EXCEPT !.color = ImU32(val)]
              ELSE tbl[i]]

\* alpha <= 0xff (line 913)
IsByte(alpha) == alpha[1] = 0 /\ alpha[2] = 0 /\ alpha[3] = 0

\* The bitwise or of two bytes.
RECURSIVE ByteOr(_, _)
ByteOr(a, b) ==
    IF a = 0 THEN b
    ELSE IF b = 0 THEN a
    ELSE (IF a % 2 = 1 \/ b % 2 = 1 THEN 1 ELSE 0) + 2 * ByteOr(a \div 2, b \div 2)

\* A bug line 914 could have: the alpha bits of color are not masked out.
WithAlpha_NoMask(color, alpha) ==
    <<ByteOr(color[1], alpha[4]), color[2], color[3], color[4]>>

\* ( color & ~IM_COL32_A_MASK ) | ( alpha << IM_COL32_A_SHIFT ) (line 914): the
\* shift moves the low byte of alpha to the top and drops the rest.
WithAlpha(color, alpha) == <<alpha[4], color[2], color[3], color[4]>>

\* A bug Clrs::get could have: the alpha argument is always applied.
Clrs_get_AlwaysAlpha(tbl, col, alpha) == WithAlpha(tbl[col].color, alpha)

\* Clrs::get (lines 911-917)
Clrs_get(tbl, col, alpha) ==
    IF IsByte(alpha)
      THEN WithAlpha(tbl[col].color, alpha)
      ELSE tbl[col].color

\* A bug Clrs::set could have: the flag is set without comparing.
Clrs_set_NoCompare(tbl, col, color) ==
    [tbl EXCEPT ![col].color = color, ![col].modified = TRUE]

\* A change Clrs::set could have: the flag tells whether the new color
\* differs from the default.
Clrs_set_FlagByDefault(tbl, col, color) ==
    IF tbl[col].color # color
      THEN [tbl EXCEPT ![col].color = color,
                       ![col].modified = (color # tbl[col].defcolor)]
      ELSE tbl

\* Clrs::set (lines 933-940)
Clrs_set(tbl, col, color) ==
    IF tbl[col].color # color
      THEN [tbl EXCEPT ![col].color = color, ![col].modified = TRUE]
      ELSE tbl

\* A change Clrs::reset could have: it clears the modified flag as well.
Clrs_reset_Unflag(tbl, col) ==
    [tbl EXCEPT ![col].color = tbl[col].defcolor, ![col].modified = FALSE]

\* A change Clrs::reset could have: it stores the default as set would.
Clrs_reset_ViaSet(tbl, col) ==
    IF tbl[col].color # tbl[col].defcolor
      THEN [tbl EXCEPT ![col].color = tbl[col].defcolor, ![col].modified = TRUE]
      ELSE tbl

\* Clrs::reset (lines 942-945)
Clrs_reset(tbl, col) ==
    [tbl EXCEPT ![col].color = tbl[col].defcolor]

\* A bug Clrs::is_default could have: it answers from the modified flag.
Clrs_is_default_ByFlag(tbl, col) == ~tbl[col].modified

\* Clrs::is_default (lines 958-961)
Clrs_is_default(tbl, col) == tbl[col].color = tbl[col].defcolor

\* Clrs::is_alpha_color (lines 963-976)
Clrs_is_alpha_color(col) ==
    col \in {"col_ThemeAlpha", "col_Graph_PrintLabelSat", "col_Graph_PrintLabelAlpha",
             "col_Graph_TimelineLabelSat", "col_Graph_TimelineLabelAlpha"}

\* A bug Clrs::shutdown could have: the modified flag is not looked at.
Clrs_shutdown_entry_Unflagged(tbl, ini, i) ==
    IF Clrs_is_default(tbl, i)
      THEN PutStr(ini, i, Blank)
      ELSE PutUint64(ini, i, ToUint64(tbl[i].color))

\* Clrs::shutdown, the body of its loop (lines 899-907)
Clrs_shutdown_entry(tbl, ini, i) ==
    IF tbl[i].modified
      THEN IF Clrs_is_default(tbl, i)
             THEN PutStr(ini, i, Blank)
             ELSE PutUint64(ini, i, ToUint64(tbl[i].color))
      ELSE ini

\* Clrs::shutdown, its loop over the entries in todo (line 897)
RECURSIVE Clrs_shutdown_loop(_, _, _)
Clrs_shutdown_loop(tbl, ini, todo) ==
    IF todo = {} THEN ini
    ELSE LET i == CHOOSE x \in todo : TRUE
         IN  Clrs_shutdown_loop(tbl, Clrs_shutdown_entry(tbl, ini, i), todo \ {i})

\* Clrs::shutdown (lines 895-909): the ini file it leaves.
Clrs_shutdown(tbl, ini) == Clrs_shutdown_loop(tbl, ini, DOMAIN tbl)

\* No call has been made on the colour table yet.
NoOp == [op |-> "none", col |-> "", arg |-> <<>>, old |-> <<>>, res |-> <<>>]

\* Nothing has been done to a colour in this session: last is the last of
\* set and reset called on it, atSet tells whether its color differed from
\* its default right after the last set, changed whether some set changed
\* its color.
NoHist == [last |-> "none", atSet |-> "never", changed |-> FALSE]

\* The static initializer of s_colordata (lines 874-879): color and defcolor
\* are the entry's compiled-in colour, modified is false.
StaticTable(d) ==
    [r \in Roles |-> [color |-> d[r], defcolor |-> d[r], modified |-> FALSE]]

\* The state at process start.  The ini file holds what an earlier run left
\* in it: under each key nothing, an empty value, or a colour other than the
\* entry's default (lines 903-906 store no other).
ClrInit ==
    /\ LogVarsInit
    /\ HashIdle
    /\ \E d \in [Roles -> Colors] :
          /\ s_colordata = StaticTable(d)
          /\ s_ini \in [Roles -> StoreVals]
          /\ \A r \in Roles : s_ini[r] # ToUint64(d[r])
    /\ lastOp = NoOp
    /\ clrHist = [r \in Roles |-> NoHist]

\* Clrs::init is called once, at startup, before any other call.
Clrs_init_call ==
    /\ lastOp.op = "none"
    /\ s_colordata' = Clrs_init(s_colordata, s_ini)
    /\ lastOp' = [NoOp EXCEPT !.op = "init"]
    /\ UNCHANGED <<s_ini, clrHist, logVars, logHist, hashVars>>

Clrs_get_call(col, alpha) ==
    /\ lastOp.op # "none"
    /\ lastOp' = [op |-> "get", col |-> col, arg |-> alpha, old |-> s_colordata[col],
                  res |-> Clrs_get(s_colordata, col, alpha)]
    /\ UNCHANGED <<s_colordata, s_ini, clrHist, logVars, logHist, hashVars>>

Clrs_set_call(col, color) ==
    /\ lastOp.op # "none"
    /\ s_colordata' = Clrs_set(s_colordata, col, color)
    /\ lastOp' = [op |-> "set", col |-> col, arg |-> color, old |-> s_colordata[col],
                  res |-> <<>>]
    /\ clrHist' = [clrHist EXCEPT ![col] =
                     [last |-> "set",
                      atSet |-> IF s_colordata'[col].color # s_colordata'[col].defcolor
                                  THEN "differs" ELSE "equal",
                      changed |-> @.changed \/ s_colordata[col].color # color]]
    /\ UNCHANGED <<s_ini, logVars, logHist, hashVars>>

Clrs_reset_call(col) ==
    /\ lastOp.op # "none"
    /\ s_colordata' = Clrs_reset(s_colordata, col)
    /\ lastOp' = [op |-> "reset", col |-> col, arg |-> <<>>, old |-> s_colordata[col],
                  res |-> <<>>]
    /\ clrHist' = [clrHist EXCEPT ![col].last = "reset"]
    /\ UNCHANGED <<s_ini, logVars, logHist, hashVars>>

\* Clrs::shutdown, called when the program exits; old is the ini file it found.
Clrs_shutdown_call ==
    /\ lastOp.op \notin {"none", "shutdown"}
    /\ s_ini' = Clrs_shutdown(s_colordata, s_ini)
    /\ lastOp' = [op |-> "shutdown", col |-> "", arg |-> <<>>, old |-> s_ini,
                  res |-> <<>>]
    /\ UNCHANGED <<s_colordata, clrHist, logVars, logHist, hashVars>>

\* The next run of the program: s_colordata is initialized again (lines
\* 874-879) and the ini file is what the last run left.
Clrs_restart ==
    /\ lastOp.op = "shutdown"
    /\ s_colordata' = StaticTable([r \in Roles |-> s_colordata[r].defcolor])
    /\ lastOp' = NoOp
    /\ clrHist' = [r \in Roles |-> NoHist]
    /\ UNCHANGED <<s_ini, logVars, logHist, hashVars>>

ClrNext ==
    \/ Clrs_init_call
    \/ \E col \in Roles, alpha \in AlphaArgs : Clrs_get_call(col, alpha)
    \/ \E col \in Roles, color \in Colors : Clrs_set_call(col, color)
    \/ \E col \in Roles : Clrs_reset_call(col)
    \/ Clrs_shutdown_call
    \/ Clrs_restart

ClrSpec == ClrInit /\ [][ClrNext]_vars

(***************************************************************************)
(* Properties of the colour table.                                         *)
(***************************************************************************)
\* C8: after any calls of set and reset, from the static table or from one
\* loaded by init, is_default(r) is true exactly when get(r), with no alpha
\* argument, is r's default colour.
C8_IsDefaultIffGetIsDefault ==
    \A r \in Roles :
        Clrs_is_default(s_colordata, r)
            <=> (Clrs_get(s_colordata, r, NoAlpha) = s_colordata[r].defcolor)

\* A colour that was loaded or set to another value has been reset: it is at
\* its default with the flag of an earlier set still on.
C8_Witness ==
    /\ lastOp.op = "reset"
    /\ lastOp.old.color # lastOp.old.defcolor
    /\ s_colordata[lastOp.col].modified
    /\ Clrs_is_default(s_colordata, lastOp.col)
    /\ \E r \in Roles : ~Clrs_is_default(s_colordata, r)

\* C9: from any reachable table, set(r, c) followed by get(r) with no alpha
\* argument returns c, for every colour r (alpha-only or not) and every c, and
\* the set leaves the color of every other entry as it was.
C9_SetThenGet ==
    \A r \in Roles, c \in Colors :
        LET after == Clrs_set(s_colordata, r, c)
        IN  /\ Clrs_get(after, r, NoAlpha) = c
            /\ \A o \in Roles \ {r} : after[o].color = s_colordata[o].color

\* A colour that is not alpha-only was set to a value with an alpha below
\* 0xff that it did not have, next to an entry that is not at its default.
C9_Witness ==
    /\ lastOp.op = "set"
    /\ ~Clrs_is_alpha_color(lastOp.col)
    /\ lastOp.arg # lastOp.old.color
    /\ lastOp.arg[1] < 255
    /\ s_colordata[lastOp.col].color = lastOp.arg
    /\ \E o \in Roles \ {lastOp.col} : ~Clrs_is_default(s_colordata, o)

\* C10: from any reachable table, set(r, c) with c the entry's color changes
\* nothing, the flag included; with another c it makes color c and modified
\* true; and a second set(r, c) changes nothing more.
C10_SetIdempotent ==
    \A r \in Roles, c \in Colors :
        LET once == Clrs_set(s_colordata, r, c)
        IN  /\ (c = s_colordata[r].color) => once = s_colordata
            /\ (c # s_colordata[r].color) =>
                  /\ once[r].color = c
                  /\ once[r].modified
                  /\ once[r].defcolor = s_colordata[r].defcolor
            /\ Clrs_set(once, r, c) = once

\* An entry never flagged was set to the colour it already had, and is still
\* not flagged.
C10_Witness ==
    /\ lastOp.op = "set"
    /\ lastOp.arg = lastOp.old.color
    /\ ~lastOp.old.modified
    /\ ~s_colordata[lastOp.col].modified
    /\ \E o \in Roles : s_colordata[o].modified

\* The ini file holds no colour under a key: no value, or an empty one.
NoOverride(v) == v \in {Absent, Blank}

\* C11: Clrs::shutdown writes by the modified flag: a modified entry at its
\* default has its key blanked, a modified entry off its default has its color
\* stored, an entry not modified keeps the value the ini file had; and the
\* table is left as it was.
C11_ShutdownWritesModified ==
    [][Clrs_shutdown_call =>
          /\ s_colordata' = s_colordata
          /\ \A r \in Roles :
                /\ (s_colordata[r].modified /\ Clrs_is_default(s_colordata, r))
                        => s_ini'[r] = Blank
                /\ (s_colordata[r].modified /\ ~Clrs_is_default(s_colordata, r))
                        => s_ini'[r] = ToUint64(s_colordata[r].color)
                /\ ~s_colordata[r].modified => s_ini'[r] = s_ini[r]]_vars

\* Shutdown found one modified entry at its default, whose stored override it
\* blanked, and one entry not modified and off its default, whose stored
\* override it left.
C11_Witness ==
    /\ lastOp.op = "shutdown"
    /\ \E r \in Roles :
          /\ s_colordata[r].modified /\ Clrs_is_default(s_colordata, r)
          /\ ~NoOverride(lastOp.old[r]) /\ s_ini[r] = Blank
    /\ \E r \in Roles :
          /\ ~s_colordata[r].modified /\ ~Clrs_is_default(s_colordata, r)
          /\ s_ini[r] = lastOp.old[r] /\ ~NoOverride(s_ini[r])

\* C12 as stated: in every table the program reaches once Clrs::init has run,
\* set(r, defcolor of r) makes is_default(r) true and a shutdown right after
\* leaves no colour under r's key in the ini file.
C12_SetDefaultLeavesNoOverride ==
    lastOp.op # "none" =>
        \A r \in Roles :
            LET after == Clrs_set(s_colordata, r, s_colordata[r].defcolor)
            IN  /\ Clrs_is_default(after, r)
                /\ NoOverride(Clrs_shutdown(after, s_ini)[r])

\* C13 as stated: after shutdown, an entry whose last call of set and reset
\* in the session was reset has no colour under its key in the ini file; and
\* a key whose value shutdown changed to a colour belongs to an entry that
\* is modified and off its default.
C13_ResetRemovesOverride ==
    lastOp.op = "shutdown" =>
        \A r \in Roles :
            /\ clrHist[r].last = "reset" => NoOverride(s_ini[r])
            /\ (s_ini[r] # lastOp.old[r] /\ ~NoOverride(s_ini[r]))
                    => (s_colordata[r].modified /\ ~Clrs_is_default(s_colordata, r))

\* C14: Clrs::init gives every entry whose key has a colour in the ini file
\* that colour and leaves every other entry at its compiled-in colour; no
\* entry is flagged modified, no defcolor changes, the ini file is not
\* written.
C14_InitLoadsOverrides ==
    [][Clrs_init_call =>
          /\ s_ini' = s_ini
          /\ \A r \in Roles :
                /\ ~NoOverride(s_ini[r]) => ToUint64(s_colordata'[r].color) = s_ini[r]
                /\ NoOverride(s_ini[r]) => s_colordata'[r].color = s_colordata[r].defcolor
                /\ ~s_colordata'[r].modified
                /\ s_colordata'[r].defcolor = s_colordata[r].defcolor]_vars

\* init loaded a colour other than the default for one entry and found no
\* colour for another.
C14_Witness ==
    /\ lastOp.op = "init"
    /\ \E r \in Roles :
          /\ ~NoOverride(s_ini[r])
          /\ ~Clrs_is_default(s_colordata, r)
          /\ ~s_colordata[r].modified
    /\ \E r \in Roles : NoOverride(s_ini[r]) /\ Clrs_is_default(s_colordata, r)

\* C15 as stated: an entry is flagged modified if and only if its color
\* differed from its default right after the last set called on it (and it is
\* not flagged when set was never called on it).
C15_ModifiedIffDiffAtLastSet ==
    \A r \in Roles : s_colordata[r].modified <=> (clrHist[r].atSet = "differs")

\* C15 (amended): an entry is flagged modified if and only if some set called
\* on it in this run changed its color, that is, was called with a colour
\* other than the one the entry had; reset, get, init and shutdown leave the
\* flag alone.
C15_ModifiedIffSomeSetChanged ==
    \A r \in Roles : s_colordata[r].modified <=> clrHist[r].changed

\* An entry was set away from its default and then reset: flagged, at its
\* default; another, loaded off its default, was set to the colour it had:
\* not flagged.
C15_Witness ==
    /\ \E r \in Roles :
          /\ clrHist[r].last = "reset" /\ clrHist[r].atSet = "differs"
          /\ s_colordata[r].modified /\ Clrs_is_default(s_colordata, r)
    /\ \E r \in Roles :
          /\ clrHist[r].last = "set" /\ clrHist[r].atSet = "differs"
          /\ ~s_colordata[r].modified

\* The channels of a packed colour (IM_COL32_A_SHIFT is 24, R is the low byte).
IM_COL32_A(c) == c[1]

IM_COL32_B(c) == c[2]

IM_COL32_G(c) == c[3]

IM_COL32_R(c) == c[4]

\* C16: Clrs::get changes nothing in the table; for a colour that is not
\* alpha-only and an alpha argument in 0..255 its result has the R, G and B of
\* the entry's color and the argument as its alpha; with no alpha argument
\* its result is the entry's color.
C16_GetAppliesAlphaOnly ==
    [][\A col \in Roles, alpha \in AlphaArgs :
          Clrs_get_call(col, alpha) =>
              /\ s_colordata' = s_colordata
              /\ alpha = NoAlpha => lastOp'.res = s_colordata[col].color
              /\ (~Clrs_is_alpha_color(col) /\ alpha # NoAlpha) =>
                    /\ IM_COL32_A(lastOp'.res) = alpha[4]
                    /\ IM_COL32_R(lastOp'.res) = IM_COL32_R(s_colordata[col].color)
                    /\ IM_COL32_G(lastOp'.res) = IM_COL32_G(s_colordata[col].color)
                    /\ IM_COL32_B(lastOp'.res) = IM_COL32_B(s_colordata[col].color)]_vars

\* get was called on a colour that is not alpha-only, whose alpha is 0xff,
\* with the alpha argument 0x80.
C16_Witness ==
    /\ lastOp.op = "get"
    /\ ~Clrs_is_alpha_color(lastOp.col)
    /\ lastOp.arg = <<0, 0, 0, 128>>
    /\ IM_COL32_A(lastOp.old.color) = 255
    /\ IM_COL32_A(lastOp.res) = 128
    /\ s_colordata[lastOp.col].modified

\* A call of reset changes the entry's color to its default and nothing else
\* in the table or in the ini file.
C23_ResetFrame ==
    \A col \in Roles :
        Clrs_reset_call(col) =>
            /\ s_colordata'[col].color = s_colordata[col].defcolor
            /\ s_colordata'[col].defcolor = s_colordata[col].defcolor
            /\ s_colordata'[col].modified = s_colordata[col].modified
            /\ \A r \in Roles \ {col} : s_colordata'[r] = s_colordata[r]
            /\ s_ini' = s_ini

\* C23: reset(col) sets the entry's color to its defcolor and changes nothing
\* else: its modified flag and every other entry stay as they were; at
\* shutdown the ini file's value for an entry that was reset last changes only
\* if the entry's flag was true (it was so at the reset: nothing was set
\* since).
C23_ResetTouchesColorOnly ==
    /\ [][C23_ResetFrame]_vars
    /\ [](\A r \in Roles :
            (lastOp.op = "shutdown" /\ clrHist[r].last = "reset"
                 /\ s_ini[r] # lastOp.old[r])
              => s_colordata[r].modified)
    /\ [](\A r \in Roles :
            Clrs_shutdown(Clrs_reset(s_colordata, r), s_ini)[r] # s_ini[r]
              => s_colordata[r].modified)

\* Two colours were reset and the program has shut down: one had been
\* loaded and never set, and its stored value is as it was; the other had
\* been set, and its key was written.
C23_Witness ==
    /\ lastOp.op = "shutdown"
    /\ \E r, q \in Roles :
          /\ clrHist[r].last = "reset" /\ clrHist[q].last = "reset"
          /\ ~s_colordata[r].modified /\ s_colordata[q].modified
          /\ ~NoOverride(lastOp.old[r]) /\ s_ini[r] = lastOp.old[r]
          /\ s_ini[q] # lastOp.old[q]

\* C24: in one run of the program an entry's modified flag, once true, stays
\* true over every call of set, reset, get and shutdown, and a call of init
\* would leave it true as well; shutdown leaves the table alone, so that a
\* second shutdown leaves the ini file as the first one left it.
C24_ModifiedMonotone ==
    /\ [][lastOp' # NoOp =>
            \A r \in Roles : s_colordata[r].modified => s_colordata'[r].modified]_vars
    /\ [][Clrs_shutdown_call => s_colordata' = s_colordata]_vars
    /\ [](\A r \in Roles :
            s_colordata[r].modified => Clrs_init(s_colordata, s_ini)[r].modified)
    /\ [](lastOp.op = "shutdown" => Clrs_shutdown(s_colordata, s_ini) = s_ini)

\* The program has shut down and changed the ini file; a colour that was set
\* and then reset still has its flag.
C24_Witness ==
    /\ lastOp.op = "shutdown"
    /\ s_ini # lastOp.old
    /\ \E r \in Roles :
          /\ s_colordata[r].modified
          /\ clrHist[r].last = "reset"
          /\ clrHist[r].changed

\* The colours of the round trip: those of the model, 0xFFFFFFFF and 0.
EdgeColors == Colors \cup {<<255, 255, 255, 255>>, <<0, 0, 0, 0>>}

\* The table of the next run after its init: the static table loaded from
\* the ini file this run leaves.
NextSession(tbl, ini) ==
    Clrs_init(StaticTable([r \in Roles |-> tbl[r].defcolor]), ini)

\* C25: when the program has shut down, every entry whose color is not its
\* default has the same color in the next run after init, whether it was
\* loaded and left alone or set; and a colour, widened to 64 bits and stored,
\* is read back as itself and never as UINT64_MAX, 0xFFFFFFFF and 0 included.
C25_RoundTrip ==
    /\ lastOp.op = "shutdown" =>
          \A r \in Roles :
              ~Clrs_is_default(s_colordata, r)
                => NextSession(s_colordata, s_ini)[r].color = s_colordata[r].color
    /\ \A r \in Roles, c \in EdgeColors :
          LET tbl == Clrs_set(s_colordata, r, c)
              ini == Clrs_shutdown(tbl, s_ini)
          IN  /\ ToUint64(c) # UINT64_MAX
              /\ ImU32(GetUint64(PutUint64(s_ini, r, ToUint64(c)), r, UINT64_MAX)) = c
              /\ ~Clrs_is_default(tbl, r) => NextSession(tbl, ini)[r].color = c

\* The program has shut down with one colour that was loaded and never set
\* and one that was set, neither at its default.
C25_Witness ==
    /\ lastOp.op = "shutdown"
    /\ \E r, q \in Roles :
          /\ ~Clrs_is_default(s_colordata, r) /\ ~Clrs_is_default(s_colordata, q)
          /\ ~s_colordata[r].modified /\ clrHist[r].last = "none"
          /\ s_colordata[q].modified /\ clrHist[q].last = "set"
          /\ s_ini[q] = ToUint64(s_colordata[q].color)
          /\ s_ini[q] # lastOp.old[q]

(***************************************************************************)
(* imgui_col_from_hashval (lines 389-395).                                 *)
(***************************************************************************)
\* A uint32_t hashval is modelled by its two parts, <<hashval >> 24,
\* hashval & 0xffffff>>.  The high bytes and the low 24 bits of the model:
\* both ends of each range, their neighbours and values in between.
HiBytes == {0, 1, 2, 63, 127, 128, 129, 200, 253, 254, 255}

LowBits == {0, 1, 2, 255, 256, 65535, 8388607, 8388608, 16777213, 16777214, 16777215}

HashVals == HiBytes \X LowBits

\* hashval >> 24 (line 392)
HighByte(hashval) == hashval[1]

\* hashval & 0xffffff (line 391)
Low24(hashval) == hashval[2]

\* The floats h and v are modelled by the exact rationals of their
\* expressions, a rational by <<numerator, denominator>> with a positive
\* denominator.  The float results agree with them at both ends of each
\* range: 16777215 / 16777215.0f is 1.0f and 255 / 510.0f + 0.5f is 1.0f.
RatAdd(a, b) == <<a[1] * b[2] + b[1] * a[2], a[2] * b[2]>>

RatLess(a, b) == a[1] * b[2] < b[1] * a[2]

\* Two rationals are equal when their lowest terms are the same.
RECURSIVE Gcd(_, _)
Gcd(m, n) == IF n = 0 THEN m ELSE Gcd(n, m % n)

LowestTerms(a) == <<a[1] \div Gcd(a[1], a[2]), a[2] \div Gcd(a[1], a[2])>>

RatEq(a, b) == LowestTerms(a) = LowestTerms(b)

RatLeq(a, b) == RatLess(a, b) \/ RatEq(a, b)

\* line 391: float h = ( hashval & 0xffffff ) / 16777215.0f
HashHue(hashval) == <<Low24(hashval), 16777215>>

\* A bug line 392 could have: the division by 255 without the factor 2.
HashValue_NoHalf(hashval) == RatAdd(<<HighByte(hashval), 255>>, <<1, 2>>)

\* line 392: float v = ( hashval >> 24 ) / ( 2.0f * 255.0f ) + 0.5f
HashValue(hashval) == RatAdd(<<HighByte(hashval), 2 * 255>>, <<1, 2>>)

\* The subsystem is used alone.
HashInit ==
    /\ LogVarsInit
    /\ ClrIdle
    /\ HashIdle

\* A call of imgui_col_from_hashval: lines 391-392.  The colour it returns is
\* made of h, sat, v and alpha by imgui_hsv (line 394).
imgui_col_from_hashval(hashval) ==
    /\ hashcol' = [hashval |-> hashval, h |-> HashHue(hashval), v |-> HashValue(hashval)]
    /\ UNCHANGED <<logVars, logHist, clrVars>>

HashNext == \E hashval \in HashVals : imgui_col_from_hashval(hashval)

HashSpec == HashInit /\ [][HashNext]_vars

(***************************************************************************)
(* Properties of imgui_col_from_hashval.                                   *)
(***************************************************************************)
\* C18 as stated: h is ( hashval & 0xffffff ) / 16777215 and lies in [0, 1),
\* v is ( hashval >> 24 ) / 510 + 1 / 2 and lies in [1/2, 1).
C18_HashRangesHalfOpen ==
    hashcol # <<>> =>
        /\ RatEq(hashcol.h, <<Low24(hashcol.hashval), 16777215>>)
        /\ RatLeq(<<0, 1>>, hashcol.h) /\ RatLess(hashcol.h, <<1, 1>>)
        /\ RatEq(hashcol.v, <<HighByte(hashcol.hashval) + 255, 510>>)
        /\ RatLeq(<<1, 2>>, hashcol.v) /\ RatLess(hashcol.v, <<1, 1>>)

\* C18 (amended): h is ( hashval & 0xffffff ) / 16777215 and lies in the
\* closed interval [0, 1], reaching 1 exactly when the low 24 bits are all
\* ones; v is ( hashval >> 24 ) / 510 + 1 / 2 and lies in the closed interval
\* [1/2, 1], reaching 1 exactly when the high byte is 255.
C18_HashRangesClosed ==
    hashcol # <<>> =>
        /\ RatEq(hashcol.h, <<Low24(hashcol.hashval), 16777215>>)
        /\ RatLeq(<<0, 1>>, hashcol.h) /\ RatLeq(hashcol.h, <<1, 1>>)
        /\ RatEq(hashcol.h, <<1, 1>>) <=> Low24(hashcol.hashval) = 16777215
        /\ RatEq(hashcol.v, <<HighByte(hashcol.hashval) + 255, 510>>)
        /\ RatLeq(<<1, 2>>, hashcol.v) /\ RatLeq(hashcol.v, <<1, 1>>)
        /\ RatEq(hashcol.v, <<1, 1>>) <=> HighByte(hashcol.hashval) = 255

\* The hash 0xffffffff: h and v are both 1.
C18_Witness ==
    /\ hashcol # <<>>
    /\ hashcol.hashval = <<255, 16777215>>
    /\ RatEq(hashcol.h, <<1, 1>>)
    /\ RatEq(hashcol.v, <<1, 1>>)

====
